---- MODULE Spec2Model ----
(***************************************************************************)
(* The paper search backend: the search pipeline of SearchService and of   *)
(* ArxivKnowledgeBase (fetch from arXiv, filter, merge with the similarity *)
(* index, rank, paginate), as a state machine of one request.              *)
(*                                                                         *)
(* Text is a sequence of one-character strings, so that lower(), split(),  *)
(* the substring test and int() are computed, not assumed.  A key missing  *)
(* from a paper dict is its .get() default: "" for arxiv_id (None and ""   *)
(* are both falsy), <<>> for texts and lists, 0 for citation_count.        *)
(* Optional[int] and Optional[str] parameters are 0 and "" when absent:    *)
(* the code only tests their truthiness, which None, 0 and "" share.       *)
(* Scores are kept in hundredths (score * 100) so that they are integers.  *)
(***************************************************************************)
EXTENDS Integers, Sequences, FiniteSets, TLC

\* ---------------------------------------------------------------- bounds

\* Longest list of papers arXiv and the similarity index hold together.
MaxLen == 2
\* Largest offset of a request.
MaxOffset == 2
\* Largest small limit of a request (the default limit is tried as well).
MaxLimit == 1
\* contexts retrieved for a question
MaxContexts == 2
\* pieces of text a generated answer is made of
MaxPieces == 3

\* papers in a short answer to a trending query
MaxShort == 1
\* the last day of the clock (the first is day 1)
MaxDay == 8
\* the calls two concurrent requests make on the shared client, in all
MaxCalls == 4
\* the calls two concurrent tasks make on the shared knowledge base, in all
MaxWrites == 2
\* the most papers a category listing answers with
MaxFetched == 2
\* the longest title of a cited paper, in characters
MaxTitle == 3
\* the longest text handed to preprocess_query on its own
MaxText == 4
\* the largest ARXIV_MAX_RESULTS and ARXIV_REQUEST_TIMEOUT of an environment
MaxSetting == 1
\* the longest SUPPORTED_CATEGORIES of an environment, in characters
MaxEnv == 2

\* SearchRequest.limit default.
DefaultLimit == 10
\* max_results of each search of get_trending_papers
TrendingMaxResults == 10
\* the papers get_trending_papers returns at most
TrendingTop == 20
\* the days a cached paper stays fresh
CacheDays == 7

\* ------------------------------------------------------------------ text

Min(a, b) == IF a < b THEN a ELSE b
Max(a, b) == IF a > b THEN a ELSE b

Digits == {"0", "1", "2", "3", "4", "5", "6", "7", "8", "9"}

DigitVal(c) ==
    CASE c = "0" -> 0 [] c = "1" -> 1 [] c = "2" -> 2 [] c = "3" -> 3
      [] c = "4" -> 4 [] c = "5" -> 5 [] c = "6" -> 6 [] c = "7" -> 7
      [] c = "8" -> 8 [] c = "9" -> 9

\* str.lower() on one character (the letters the model's texts use).
LowerChar(c) ==
    CASE c = "A" -> "a" [] c = "B" -> "b" [] c = "C" -> "c" [] OTHER -> c

\* str.lower()
Lower(s) == [i \in 1..Len(s) |-> LowerChar(s[i])]

\* `p in s` for two strings: p is a contiguous part of s.
Contains(s, p) ==
    \E i \in 0..(Len(s) - Len(p)) : SubSeq(s, i + 1, i + Len(p)) = p

\* the characters str.strip() and str.split() take for whitespace (those
\* of them the model's texts use)
Whitespace == {" ", "\t", "\n"}

\* str.strip(): leading and trailing whitespace removed.
RECURSIVE Strip(_)
Strip(s) ==
    IF s = <<>> THEN <<>>
    ELSE IF Head(s) \in Whitespace THEN Strip(Tail(s))
    ELSE IF s[Len(s)] \in Whitespace THEN Strip(SubSeq(s, 1, Len(s) - 1))
    ELSE s

\* str.split(): the maximal runs without whitespace, in order.
RECURSIVE SplitFrom(_, _, _)
SplitFrom(s, cur, acc) ==
    IF s = <<>> THEN (IF cur = <<>> THEN acc ELSE Append(acc, cur))
    ELSE IF Head(s) \in Whitespace
         THEN SplitFrom(Tail(s), <<>>, IF cur = <<>> THEN acc ELSE Append(acc, cur))
         ELSE SplitFrom(Tail(s), Append(cur, Head(s)), acc)

Split(s) == SplitFrom(s, <<>>, <<>>)

\* " ".join(words)
RECURSIVE Join(_)
Join(words) ==
    IF words = <<>> THEN <<>>
    ELSE IF Len(words) = 1 THEN words[1]
    ELSE words[1] \o <<" ">> \o Join(Tail(words))

\* a normaliser that only trims
StripOnly(query) == Strip(query)

\* TextProcessor.preprocess_query on a str: " ".join(query.strip().split())
preprocess_query(query) == Join(Split(Strip(query)))

\* a Python value handed to preprocess_query: a str with its text, or a
\* value of another type (None, an int)
PyValue(type, text) == [type |-> type, text |-> text]

\* TextProcessor.preprocess_query on any value: "" unless it is a str
PreprocessValue(value) ==
    IF value.type # "str" THEN <<>> ELSE preprocess_query(value.text)

\* published.split("-")[0]: the text before the first "-".
RECURSIVE FirstField(_)
FirstField(s) ==
    IF s = <<>> \/ Head(s) = "-" THEN <<>>
    ELSE <<Head(s)>> \o FirstField(Tail(s))

RECURSIVE DecimalValue(_)
DecimalValue(s) ==
    IF s = <<>> THEN 0 ELSE 10 * DecimalValue(SubSeq(s, 1, Len(s) - 1)) + DigitVal(s[Len(s)])

\* int(text): blanks around the digits are accepted, anything else raises
\* ValueError (ok = FALSE).
PyInt(s) ==
    LET t == Strip(s)
    IN  IF t # <<>> /\ \A i \in 1..Len(t) : t[i] \in Digits
        THEN [ok |-> TRUE, val |-> DecimalValue(t)]
        ELSE [ok |-> FALSE, val |-> 0]

\* int(published.split("-")[0])
ParseYear(published) == PyInt(FirstField(published))

\* ---------------------------------------------------------------- papers

\* A paper dict as ArxivClient._parse_entry builds it (and as a similarity
\* index may return it, then possibly with a citation_count).
Paper(id, title, abstract, published, categories, citations) ==
    [arxiv_id |-> id, title |-> title, abstract |-> abstract,
     published |-> published, categories |-> categories,
     citation_count |-> citations]

\* title "A b", abstract "a b", published 2023-01, in cs.LG
PaperA1 == Paper("A", <<"A", " ", "b">>, <<"a", " ", "b">>,
                 <<"2", "0", "2", "3", "-", "0", "1">>, <<"cs.LG">>, 0)
\* the same identifier with other content: "c", abstract "b", 2019-05, cs.CV
PaperA2 == Paper("A", <<"c">>, <<"b">>,
                 <<"2", "0", "1", "9", "-", "0", "5">>, <<"cs.CV">>, 0)
\* an entry without an id element: the content of PaperA1, in two categories
PaperN == Paper("", <<"A", " ", "b">>, <<"a", " ", "b">>,
                <<"2", "0", "2", "3", "-", "0", "1">>, <<"cs.CV", "cs.LG">>, 0)
\* published "x-1" (not a date): "b", abstract "c", cs.LG
PaperX == Paper("B", <<"b">>, <<"c">>, <<"x", "-", "1">>, <<"cs.LG">>, 0)
\* no published date and 3 citations: "c", abstract "b", cs.CV
PaperC == Paper("C", <<"c">>, <<"b">>, <<>>, <<"cs.CV">>, 3)

Papers == {PaperA1, PaperA2, PaperN, PaperX, PaperC}

\* The lists of at most n papers.
PaperLists(n) == UNION {[1..k -> Papers] : k \in 0..n}

\* " A  b " (to be normalised to "A b") and "b"
Queries == {<<" ", "A", " ", " ", "b", " ">>, <<"b">>}

\* SearchRequest.category: absent, or one category.
CategoryFilters == {"", "cs.LG"}
\* year_from / year_to: absent or a year.
YearFilters == {0, 2020}

RangeOf(seq) == {seq[i] : i \in 1..Len(seq)}

\* ---------------------------------------------------------------- filter

\* a year filter that fails closed: the paper whose year does not parse is
\* dropped
FailClosedYearFilter(result, year_from, year_to) ==
    IF result.published = <<>> THEN TRUE
    ELSE LET year == ParseYear(result.published)
         IN  IF ~year.ok THEN FALSE
             ELSE IF year_from # 0 /\ year.val < year_from THEN FALSE
             ELSE IF year_to # 0 /\ year.val > year_to THEN FALSE
             ELSE TRUE

\* SearchService._check_year_filter and ArxivKnowledgeBase._check_year_filter
\* (the same text): TRUE keeps the paper.  A ValueError of int() is caught by
\* the bare except, which returns True.
_check_year_filter(result, year_from, year_to) ==
    IF result.published = <<>> THEN TRUE
    ELSE LET year == ParseYear(result.published)
         IN  IF ~year.ok THEN TRUE
             ELSE IF year_from # 0 /\ year.val < year_from THEN FALSE
             ELSE IF year_to # 0 /\ year.val > year_to THEN FALSE
             ELSE TRUE

\* the year step shared by both _apply_filters
YearStep(results, year_from, year_to) ==
    IF year_from # 0 \/ year_to # 0
    THEN SelectSeq(results, LAMBDA r : _check_year_filter(r, year_from, year_to))
    ELSE results

\* SearchService._apply_filters: one category, tested with `in`.
SearchApplyFilters(results, category, year_from, year_to) ==
    LET byCategory ==
            IF category # ""
            THEN SelectSeq(results, LAMBDA r : category \in RangeOf(r.categories))
            ELSE results
    IN  YearStep(byCategory, year_from, year_to)

\* ArxivKnowledgeBase._apply_filters: a list of categories, any of them.
KbApplyFilters(papers, categories, year_from, year_to) ==
    LET byCategory ==
            IF categories # <<>>
            THEN SelectSeq(papers,
                    LAMBDA p : \E c \in RangeOf(categories) : c \in RangeOf(p.categories))
            ELSE papers
    IN  YearStep(byCategory, year_from, year_to)

\* ----------------------------------------------------------------- merge

\* first loop of _merge_results: every similarity result with an arxiv_id
RECURSIVE MergeVector(_, _, _)
MergeVector(vector_results, merged, arxiv_ids) ==
    IF vector_results = <<>> THEN [merged |-> merged, arxiv_ids |-> arxiv_ids]
    ELSE LET result == Head(vector_results)
         IN  IF result.arxiv_id # ""
             THEN MergeVector(Tail(vector_results), Append(merged, result),
                              arxiv_ids \cup {result.arxiv_id})
             ELSE MergeVector(Tail(vector_results), merged, arxiv_ids)

\* second loop of _merge_results: the arXiv results not seen yet
RECURSIVE MergeArxiv(_, _, _)
MergeArxiv(arxiv_results, merged, arxiv_ids) ==
    IF arxiv_results = <<>> THEN merged
    ELSE LET result == Head(arxiv_results)
         IN  IF result.arxiv_id # "" /\ result.arxiv_id \notin arxiv_ids
             THEN MergeArxiv(Tail(arxiv_results), Append(merged, result),
                             arxiv_ids \cup {result.arxiv_id})
             ELSE MergeArxiv(Tail(arxiv_results), merged, arxiv_ids)

\* SearchService._merge_results and ArxivKnowledgeBase._merge_results (the
\* same text)
_merge_results(arxiv_results, vector_results) ==
    LET first == MergeVector(vector_results, <<>>, {})
    IN  MergeArxiv(arxiv_results, first.merged, first.arxiv_ids)

\* ------------------------------------------------------------------ rank

\* a score whose title match counts 1, like a word of the abstract
ScoreWithWeakTitle(result, query) ==
    LET query_lower == Lower(query)
        query_words == Split(query_lower)
        year == ParseYear(result.published)
    IN  (IF Contains(Lower(result.title), query_lower) THEN 100 ELSE 0)
        + 100 * Cardinality({i \in 1..Len(query_words) :
                                Contains(Lower(result.abstract), query_words[i])})
        + (IF result.published # <<>> /\ year.ok THEN year.val - 2000 ELSE 0)

\* the part of sort_key both services share, in hundredths: title match,
\* abstract words, year
BaseScore(result, query) ==
    LET title == Lower(result.title)
        query_lower == Lower(query)
        abstract == Lower(result.abstract)
        query_words == Split(query_lower)
        year == ParseYear(result.published)
    IN  (IF Contains(title, query_lower) THEN 1000 ELSE 0)
        + 100 * Cardinality({i \in 1..Len(query_words) : Contains(abstract, query_words[i])})
        + (IF result.published # <<>> /\ year.ok THEN year.val - 2000 ELSE 0)

\* SearchService._sort_results.sort_key, negated back: the score, in hundredths
SearchScore(result, query) == BaseScore(result, query) + 10 * result.citation_count

\* ArxivKnowledgeBase._sort_papers.sort_key, negated back
KbScore(result, query) == BaseScore(result, query)

\* a sort that is not stable: equal keys come out in reverse order
UnstableSorted(results, keys) ==
    LET n == Len(results)
        pos(i) == 1 + Cardinality({j \in 1..n :
                        keys[j] < keys[i] \/ (keys[j] = keys[i] /\ j > i)})
    IN  [p \in 1..n |-> results[CHOOSE i \in 1..n : pos(i) = p]]

\* sorted(results, key=...): ascending by key, equal keys in their given order
PySorted(results, keys) ==
    LET n == Len(results)
        pos(i) == 1 + Cardinality({j \in 1..n :
                        keys[j] < keys[i] \/ (keys[j] = keys[i] /\ j < i)})
    IN  [p \in 1..n |-> results[CHOOSE i \in 1..n : pos(i) = p]]

\* SearchService._sort_results
_sort_results(results, query) ==
    PySorted(results, [i \in 1..Len(results) |-> 0 - SearchScore(results[i], query)])

\* ArxivKnowledgeBase._sort_papers
_sort_papers(papers, query) ==
    PySorted(papers, [i \in 1..Len(papers) |-> 0 - KbScore(papers[i], query)])

\* a slice that forgets its start: the first stop - start results
SliceFromFront(results, start, stop) ==
    SubSeq(results, 1, Min(stop - start, Len(results)))

\* results[start:stop] for 0 <= start <= stop
PySlice(results, start, stop) ==
    SubSeq(results, Min(start, Len(results)) + 1, Min(stop, Len(results)))

\* SearchService._format_results, one paper (authors and pdf_url are copied
\* like the other fields and left out of the model's papers)
FormatResult(result) ==
    [id |-> result.arxiv_id, title |-> result.title, abstract |-> result.abstract,
     published |-> result.published, categories |-> result.categories,
     arxiv_id |-> result.arxiv_id]

_format_results(results) == [i \in 1..Len(results) |-> FormatResult(results[i])]

\* ----------------------------------------------------------------- state

VARIABLES
    pc,                \* where the request is: idle, arxiv, vector, done, failed
    req,               \* the request's parameters
    processed_query,   \* the query after preprocess_query
    available,         \* VectorStore._available
    upstream,          \* the papers arXiv holds for the query, in its order
    arxiv_results,     \* what ArxivClient.search returned
    filtered_results,  \* after _apply_filters
    vector_results,    \* what similarity_search returned
    merged_results,    \* the list handed to the sort
    sorted_results,    \* the ranked list
    response,          \* what the request returned: papers and total
    error,             \* the HTTPException the endpoint raised, if any
    knowledge_cache,   \* ArxivKnowledgeBase._knowledge_cache["papers"]
    now                \* the clock

\* question answering (rag_service.answer_with_citations)
VARIABLES
    cite_pc,           \* idle, llm (contexts retrieved, generating), done
    contexts,          \* what retrieve_context returned
    answer_text,       \* answer: the text LocalQwenLLM.generate returned
    indices,           \* the sorted set of bracketed numbers of the answer
    citations,         \* the citations returned
    sources            \* the sources QAService.ask_question returns

\* the trending listing (ArxivKnowledgeBase.get_trending_papers)
VARIABLES
    trend_pc,          \* idle, searching, done
    queries_done,      \* how many of trending_queries have been answered
    all_papers,        \* the answers so far, concatenated
    unique_papers,     \* after _deduplicate_papers
    trend_exception,   \* the exception get_trending_papers caught, if any
    trend_response     \* what the trending endpoint answered

\* calls on the knowledge base, one after the other, and the paper lookup
VARIABLES
    kb_pc,             \* idle, fetching (a lookup at arXiv is awaited), done
    kb_req,            \* the call: its operation and its arxiv_id
    kb_out,            \* what the endpoint answered: status and papers
    upstream_failure   \* what went wrong at arXiv during the call, "" if nothing

\* the ArxivClient of the shared ArxivKnowledgeBase, and the requests in
\* flight on it
VARIABLES
    session,           \* ArxivClient.session: 0 for None, else the session
    closed,            \* the sessions that have been closed
    created,           \* how many sessions have been created
    started,           \* how many calls have been started
    calls              \* per request: where its call is, its kind, the
                       \* session its GET runs on, the endpoint's status

\* the whole cache of the shared ArxivKnowledgeBase, its file, and the tasks
\* (requests, background updates) that write it concurrently
VARIABLES
    _knowledge_cache,  \* _knowledge_cache: last_updated, total_papers,
                       \* categories, papers (identifier -> cached_at)
    cache_file,        \* what knowledge_cache.json holds
    writers,           \* per task: its call, where it is, its locals
    writes,            \* how many calls have been started
    completed          \* the update runs that completed: when, with what total

\* the configuration (utils/config.py)
VARIABLES
    environ,           \* the settings the Config class read at import
    config_pc,         \* loaded, validated
    valid              \* what Config.validate returned

searchVars == <<pc, req, processed_query, available, upstream, arxiv_results,
                filtered_results, vector_results, merged_results, sorted_results,
                response, error>>
cacheVars == <<knowledge_cache, now>>
citeVars == <<cite_pc, contexts, answer_text, indices, citations, sources>>
trendVars == <<trend_pc, queries_done, all_papers, unique_papers, trend_exception,
               trend_response>>

kbVars == <<kb_pc, kb_req, kb_out, upstream_failure>>
sessVars == <<session, closed, created, started, calls>>
taskVars == <<_knowledge_cache, cache_file, writers, writes, completed>>
configVars == <<environ, config_pc, valid>>

vars == <<searchVars, cacheVars, citeVars, trendVars, kbVars, sessVars, taskVars,
          configVars>>

\* the variables each part of the backend leaves alone
notSearch == <<citeVars, trendVars, kbVars, sessVars, taskVars, configVars>>
notCite == <<searchVars, cacheVars, trendVars, kbVars, sessVars, taskVars, configVars>>
notTrend == <<searchVars, cacheVars, citeVars, kbVars, sessVars, taskVars, configVars>>
notKb == <<searchVars, citeVars, trendVars, sessVars, taskVars, configVars>>
notSess == <<searchVars, cacheVars, citeVars, trendVars, kbVars, taskVars, configVars>>
notTask == <<searchVars, knowledge_cache, citeVars, trendVars, kbVars, sessVars,
             configVars>>
notConfig == <<searchVars, cacheVars, citeVars, trendVars, kbVars, sessVars, taskVars>>

NoRequest == [svc |-> "none"]
NoResponse == [papers |-> <<>>, total |-> 0]

\* fastapi's HTTPException(status_code, detail); detail is the endpoint's
\* prefix and str(e)
HTTPException(status_code, detail) == [status_code |-> status_code, detail |-> detail]
NoError == HTTPException(0, <<>>)

\* limit of SearchRequest / max_results of the knowledge base search
Limits == (0..MaxLimit) \cup {DefaultLimit}
Offsets == 0..MaxOffset
\* KnowledgeBaseSearchRequest.categories: absent, or a list
KbCategoryFilters == {<<>>, <<"cs.AI", "cs.LG">>}

\* an arXiv that answers with all it holds, whatever max_results says
WholeAnswer(matches, max_results) == matches

\* ArxivClient.search against the arXiv API: start = 0 and max_results are
\* sent with the query, and the API answers with that window of its matches.
ArxivSearch(matches, max_results) == PySlice(matches, 0, max_results)

\* The lists a similarity index may answer similarity_search(limit) with, next
\* to a primary answer of `taken` papers: at most limit papers.  VectorStore
\* is the place where a deployment puts its index ("replace with a real
\* embedding index"); the stub in the repository has _available = False and
\* answers [], which is the case available = FALSE here.
VectorAnswers(limit, taken) == PaperLists(Min(limit, MaxLen - taken))

\* paper["cached_at"] = now, on a paper that has an arxiv_id
WithCachedAt(paper, t) ==
    [arxiv_id |-> paper.arxiv_id, title |-> paper.title, abstract |-> paper.abstract,
     published |-> paper.published, categories |-> paper.categories,
     citation_count |-> paper.citation_count, cached_at |-> t]

\* ArxivKnowledgeBase._update_cache: the papers map after the loop
RECURSIVE UpdateCache(_, _, _)
UpdateCache(cache, papers, t) ==
    IF papers = <<>> THEN cache
    ELSE LET paper == Head(papers)
             id == paper.arxiv_id
         IN  IF id # ""
             THEN UpdateCache([k \in DOMAIN cache \cup {id} |->
                                  IF k = id THEN WithCachedAt(paper, t) ELSE cache[k]],
                              Tail(papers), t)
             ELSE UpdateCache(cache, Tail(papers), t)

\* the papers of the list as _update_cache leaves them (it writes cached_at
\* into the dicts of the list it is given)
CachedPapers(papers, t) ==
    [i \in 1..Len(papers) |->
        IF papers[i].arxiv_id # "" THEN WithCachedAt(papers[i], t) ELSE papers[i]]

\* no question asked
CiteIdle ==
    /\ cite_pc = "idle"
    /\ contexts = <<>>
    /\ answer_text = <<>>
    /\ indices = <<>>
    /\ citations = <<>>
    /\ sources = <<>>

\* the trending endpoint's answer: {"trending_papers": papers, "total":
\* len(papers), ...} with status 200, or an HTTPException (status 0: none yet)
TrendingResponse(status_code, papers) ==
    [status_code |-> status_code, trending_papers |-> papers, total |-> Len(papers)]

\* the trending listing not asked for
TrendIdle ==
    /\ trend_pc = "idle"
    /\ queries_done = 0
    /\ all_papers = <<>>
    /\ unique_papers = <<>>
    /\ trend_exception = ""
    /\ trend_response = TrendingResponse(0, <<>>)

\* a call on the knowledge base: get (get_paper_by_id), detail (PaperService),
\* search, category, update
KbCall(op, arxiv_id) == [op |-> op, arxiv_id |-> arxiv_id]

\* an endpoint's answer: the status and the papers of the body (the paper
\* of a lookup is a list of one)
KbAnswer(status_code, papers) == [status_code |-> status_code, papers |-> papers]

\* no call on the knowledge base yet
KbIdle ==
    /\ kb_pc = "idle"
    /\ kb_req = KbCall("none", "")
    /\ kb_out = KbAnswer(0, <<>>)
    /\ upstream_failure = ""

\* a call of a request on the shared client: idle, get (the GET is awaited),
\* text (the body is awaited), done
ClientCall(at, kind, using, status_code) ==
    [pc |-> at, kind |-> kind, using |-> using, status_code |-> status_code]

\* the requests in flight together
Requests == {"r1", "r2"}

\* ArxivClient.__init__: no session; no request has called yet
SessIdle ==
    /\ session = 0
    /\ closed = {}
    /\ created = 0
    /\ started = 0
    /\ calls = [r \in Requests |-> ClientCall("idle", "none", 0, 0)]

\* _knowledge_cache as _load_cache builds it and json.dump writes it (None
\* is 0; a paper is kept as its cached_at)
KnowledgeCache(last_updated, total_papers, categories, papers) ==
    [last_updated |-> last_updated, total_papers |-> total_papers,
     categories |-> categories, papers |-> papers]

\* a task on the shared knowledge base: its call (update, get, search), where
\* it is (idle, await, done), the call's argument still to be worked on, the
\* local total_updated, and what the call has brought so far: the count
\* fetched per category and the identifiers stored
Writer(op, at, arg, total_updated, fetched, stored) ==
    [op |-> op, pc |-> at, arg |-> arg, total_updated |-> total_updated,
     fetched |-> fetched, stored |-> stored]

\* the tasks running together
Tasks == {"t1", "t2"}

\* _load_cache without a cache file; no task has called yet
TaskIdle ==
    /\ _knowledge_cache = KnowledgeCache(0, 0, <<>>, <<>>)
    /\ cache_file = _knowledge_cache
    /\ writers = [t \in Tasks |-> Writer("none", "idle", <<>>, 0, <<>>, {})]
    /\ writes = 0
    /\ completed = {}

\* the settings of the Config class: ARXIV_API_BASE_URL, ARXIV_MAX_RESULTS,
\* ARXIV_REQUEST_TIMEOUT, and the SUPPORTED_CATEGORIES of the environment
Settings(base_url, max_results, timeout, categories_str) ==
    [ARXIV_API_BASE_URL |-> base_url, ARXIV_MAX_RESULTS |-> max_results,
     ARXIV_REQUEST_TIMEOUT |-> timeout, categories_str |-> categories_str]

\* the defaults of the Config class, no environment variable set (100 and
\* 30 in the source: validate reads their sign only; the default category
\* list is cut to one category)
DefaultSettings ==
    Settings("http://export.arxiv.org/api/query", MaxSetting, MaxSetting,
             <<"c">>)

\* the configuration with its defaults, not validated
ConfigDefault ==
    /\ environ = DefaultSettings
    /\ config_pc = "loaded"
    /\ valid = FALSE

\* no search request yet
SearchIdle ==
    /\ pc = "idle"
    /\ req = NoRequest
    /\ processed_query = <<>>
    /\ upstream = <<>>
    /\ arxiv_results = <<>>
    /\ filtered_results = <<>>
    /\ vector_results = <<>>
    /\ merged_results = <<>>
    /\ sorted_results = <<>>
    /\ response = NoResponse
    /\ error = NoError

\* _load_cache without a cache file: no papers
CacheEmpty ==
    /\ knowledge_cache = <<>>
    /\ now = 1

\* No request yet.  available is what is_available() reports for the life of
\* the service: FALSE for the stub, TRUE once an index is in place.
Init ==
    /\ SearchIdle
    /\ available \in BOOLEAN
    /\ CacheEmpty
    /\ CiteIdle
    /\ TrendIdle
    /\ KbIdle
    /\ SessIdle
    /\ TaskIdle
    /\ ConfigDefault

\* ------------------------------------------------------- SearchService

\* search_papers up to its first await: preprocess the query, call arXiv.
SearchStart ==
    /\ pc = "idle"
    /\ \E q \in Queries, l \in Limits, o \in Offsets, c \in CategoryFilters,
          yf \in YearFilters, yt \in YearFilters :
          /\ req' = [svc |-> "search", query |-> q, limit |-> l, offset |-> o,
                     category |-> c, year_from |-> yf, year_to |-> yt]
          /\ processed_query' = preprocess_query(q)
    /\ pc' = "arxiv"
    /\ now' = now + 1
    /\ UNCHANGED <<error, notSearch>>
    /\ UNCHANGED <<available, upstream, arxiv_results, filtered_results,
                   vector_results, merged_results, sorted_results, response,
                   knowledge_cache>>

\* a pipeline that consults the index whatever it reports
AlwaysConsulted(_available) == TRUE

\* VectorStore.is_available: return self._available
is_available(_available) == _available

\* a sort in place (results.sort(key=...)): the list handed in is the sorted one
SortedInPlace(results, sorted) == sorted

\* the list handed to sorted(results, key=sort_key) once the sort is done:
\* sorted() builds a new list and sort_key only reads the records
AfterSorted(results, sorted) == results

\* steps 5 and 6 of SearchService.search_papers: sort, slice, format, return
SearchFinish(results) ==
    LET sorted == _sort_results(results, processed_query)
        paginated == PySlice(sorted, req.offset, req.offset + req.limit)
    IN  /\ merged_results' = AfterSorted(results, sorted)
        /\ sorted_results' = sorted
        /\ response' = [papers |-> _format_results(paginated), total |-> Len(sorted)]
        /\ pc' = "done"

\* the arXiv call returns: filter; without an index, finish, else call it.
SearchArxivReturn ==
    /\ pc = "arxiv"
    /\ req.svc = "search"
    /\ \E matches \in PaperLists(MaxLen) :
          LET results == ArxivSearch(matches, req.limit * 2)
              filtered == SearchApplyFilters(results, req.category,
                                             req.year_from, req.year_to)
          IN  /\ upstream' = matches
              /\ arxiv_results' = results
              /\ filtered_results' = filtered
              /\ IF is_available(available)
                 THEN /\ pc' = "vector"
                      /\ UNCHANGED <<merged_results, sorted_results, response>>
                 ELSE SearchFinish(filtered)
    /\ now' = now + 1
    /\ UNCHANGED <<error, notSearch>>
    /\ UNCHANGED <<req, processed_query, available, vector_results, knowledge_cache>>

\* similarity_search returns: merge, then finish.
SearchVectorReturn ==
    /\ pc = "vector"
    /\ req.svc = "search"
    /\ \E answer \in VectorAnswers(req.limit, Len(arxiv_results)) :
          /\ vector_results' = answer
          /\ SearchFinish(_merge_results(filtered_results, answer))
    /\ now' = now + 1
    /\ UNCHANGED <<error, notSearch>>
    /\ UNCHANGED <<req, processed_query, available, upstream, arxiv_results,
                   filtered_results, knowledge_cache>>

\* ------------------------------------------------- ArxivKnowledgeBase

\* search_papers up to its first await (the callers leave use_cache at True)
KbStart ==
    /\ pc = "idle"
    /\ \E q \in Queries, m \in Limits, cs \in KbCategoryFilters,
          yf \in YearFilters, yt \in YearFilters :
          /\ req' = [svc |-> "kb", query |-> q, max_results |-> m, categories |-> cs,
                     year_from |-> yf, year_to |-> yt, use_cache |-> TRUE]
          /\ processed_query' = preprocess_query(q)
    /\ pc' = "arxiv"
    /\ now' = now + 1
    /\ UNCHANGED <<error, notSearch>>
    /\ UNCHANGED <<available, upstream, arxiv_results, filtered_results,
                   vector_results, merged_results, sorted_results, response,
                   knowledge_cache>>

\* steps 5 and 6 of ArxivKnowledgeBase.search_papers, and the endpoint's
\* total = len(papers)
KbFinish(results) ==
    LET sorted == _sort_papers(results, processed_query)
        final_results == PySlice(sorted, 0, req.max_results)
        returned == IF req.use_cache THEN CachedPapers(final_results, now)
                    ELSE final_results
    IN  /\ merged_results' = AfterSorted(results, sorted)
        /\ sorted_results' = sorted
        /\ knowledge_cache' = IF req.use_cache
                              THEN UpdateCache(knowledge_cache, final_results, now)
                              ELSE knowledge_cache
        /\ response' = [papers |-> returned, total |-> Len(returned)]
        /\ pc' = "done"

KbArxivReturn ==
    /\ pc = "arxiv"
    /\ req.svc = "kb"
    /\ \E matches \in PaperLists(MaxLen) :
          LET results == ArxivSearch(matches, req.max_results * 2)
              filtered == KbApplyFilters(results, req.categories,
                                         req.year_from, req.year_to)
          IN  /\ upstream' = matches
              /\ arxiv_results' = results
              /\ filtered_results' = filtered
              /\ IF is_available(available)
                 THEN /\ pc' = "vector"
                      /\ UNCHANGED <<merged_results, sorted_results, response,
                                     knowledge_cache>>
                 ELSE KbFinish(filtered)
    /\ now' = now + 1
    /\ UNCHANGED <<error, notSearch>>
    /\ UNCHANGED <<req, processed_query, available, vector_results>>

KbVectorReturn ==
    /\ pc = "vector"
    /\ req.svc = "kb"
    /\ \E answer \in VectorAnswers(req.max_results, Len(arxiv_results)) :
          /\ vector_results' = answer
          /\ KbFinish(_merge_results(filtered_results, answer))
    /\ now' = now + 1
    /\ UNCHANGED <<error, notSearch>>
    /\ UNCHANGED <<req, processed_query, available, upstream, arxiv_results,
                   filtered_results>>

\* What ArxivClient.search raises: its own Exception naming the status when
\* the status is not 200, or aiohttp's error when the network fails.  (The
\* messages of the source are in Chinese; they are given in English here.)
ArxivFailures == {"ArXiv API request failed: 503", "Cannot connect to host"}

\* what similarity_search of an index in place raises when the index fails
\* (the stub of the repository never raises, and is never available)
VectorFailure == "similarity_search failed"

\* an endpoint that answers an exception with an empty page
EndpointAnswersEmpty(svc, e) == HTTPException(200, <<"", e>>)

\* except Exception as e: raise HTTPException(status_code=500, detail=...) of
\* the two search endpoints
SearchEndpointError(svc, e) ==
    HTTPException(500, <<IF svc = "search" THEN "search failed: "
                        ELSE "knowledge base search failed: ", e>>)

\* a pipeline that calls arXiv again after a failed call
RetryPrimary == "arxiv"

\* except Exception as e: ... raise, of both search_papers: the request is
\* over, nothing is called again
AfterPrimaryFailure == "failed"

\* ArxivClient.search raises (a status other than 200, a network error); both
\* search_papers log and re-raise, and the endpoint answers 500.
ArxivFail ==
    /\ pc = "arxiv"
    /\ \E e \in ArxivFailures : error' = SearchEndpointError(req.svc, e)
    /\ pc' = AfterPrimaryFailure
    /\ now' = now + 1
    /\ UNCHANGED <<req, processed_query, available, upstream, arxiv_results,
                   filtered_results, vector_results, merged_results,
                   sorted_results, response, knowledge_cache>>
    /\ UNCHANGED notSearch

\* similarity_search raises: nothing around the call catches it, so it goes
\* the way of ArxivFail: search_papers logs and re-raises, the endpoint
\* answers 500.
VectorFail ==
    /\ pc = "vector"
    /\ error' = SearchEndpointError(req.svc, VectorFailure)
    /\ pc' = "failed"
    /\ now' = now + 1
    /\ UNCHANGED <<req, processed_query, available, upstream, arxiv_results,
                   filtered_results, vector_results, merged_results,
                   sorted_results, response, knowledge_cache>>
    /\ UNCHANGED notSearch

Next ==
    \/ SearchStart
    \/ SearchArxivReturn
    \/ SearchVectorReturn
    \/ KbStart
    \/ KbArxivReturn
    \/ KbVectorReturn
    \/ ArxivFail
    \/ VectorFail

Spec == Init /\ [][Next]_vars

\* the texts of at most MaxText characters, of letters and whitespace
Texts == UNION {[1..k -> {"a", "b", " ", "\t"}] : k \in 0..MaxText}

\* the values preprocess_query may be handed
QueryValues ==
    {PyValue("str", text) : text \in Texts}
        \cup {PyValue("NoneType", <<>>), PyValue("int", <<>>)}

\* preprocess_query is called on a value
Preprocess ==
    /\ pc = "idle"
    /\ \E value \in QueryValues :
          /\ req' = [svc |-> "text", query |-> value]
          /\ processed_query' = PreprocessValue(value)
    /\ pc' = "normalised"
    /\ UNCHANGED <<available, upstream, arxiv_results, filtered_results,
                   vector_results, merged_results, sorted_results, response,
                   error, cacheVars, notSearch>>

\* preprocess_query is called on what it returned
PreprocessAgain ==
    /\ pc = "normalised"
    /\ req' = [svc |-> "text", query |-> PyValue("str", processed_query)]
    /\ processed_query' = PreprocessValue(PyValue("str", processed_query))
    /\ pc' = "normalised again"
    /\ UNCHANGED <<available, upstream, arxiv_results, filtered_results,
                   vector_results, merged_results, sorted_results, response,
                   error, cacheVars, notSearch>>

TextNext ==
    \/ Preprocess
    \/ PreprocessAgain

\* the normaliser on its own, on the service as constructed
SpecText == Init /\ [][TextNext]_vars

\* ---------------------------------------------------- trending listing

\* a text of n characters
Text(n) == [i \in 1..n |-> "a"]

\* a paper of _parse_entry with the keys the trending path reads: shape is
\* <<len(title), len(abstract), len(categories), len(authors)>>
TrendPaper(id, shape) ==
    [arxiv_id |-> id, title |-> Text(shape[1]), abstract |-> Text(shape[2]),
     categories |-> SubSeq(<<"cs.AI", "cs.LG", "cs.CV", "cs.CL">>, 1, shape[3]),
     authors |-> SubSeq(<<"a1", "a2", "a3", "a4", "a5", "a6">>, 1, shape[4])]

\* papers at the edges of the score's conditions: two records of one
\* arxiv_id, one without arxiv_id, two of equal score
TrendA1 == TrendPaper("A", <<20, 501, 1, 1>>)
TrendA2 == TrendPaper("A", <<19, 500, 4, 6>>)
TrendN == TrendPaper("", <<100, 501, 3, 5>>)
TrendB == TrendPaper("B", <<101, 0, 0, 5>>)
TrendC == TrendPaper("C", <<0, 0, 2, 0>>)
TrendPapers == {TrendA1, TrendA2, TrendN, TrendB, TrendC}

\* the shapes of the papers of a longer answer, in arXiv's order
PageShapes ==
    <<<<20, 501, 0, 0>>, <<101, 3, 1, 1>>, <<100, 3, 2, 2>>, <<19, 3, 3, 3>>,
      <<50, 500, 4, 4>>, <<20, 3, 0, 5>>, <<20, 3, 2, 4>>>>

\* a longer answer to query number q, its arxiv_ids its own
Page(q) ==
    [i \in 1..Len(PageShapes) |->
        TrendPaper("q" \o ToString(q) \o "p" \o ToString(i), PageShapes[i])]

trending_queries ==
    <<"machine learning", "deep learning", "artificial intelligence",
      "neural networks", "natural language processing">>

\* the queries whose answers are short lists of TrendPapers; the others are
\* answered with nothing or with their Page
VariedQueries == {1, 2}

\* what ArxivClient.search(query, max_results=10) may return for query q
TrendingAnswers(q) ==
    IF q \in VariedQueries
    THEN UNION {[1..k -> TrendPapers] : k \in 0..MaxShort}
    ELSE {<<>>, PySlice(Page(q), 0, TrendingMaxResults)}

\* the loop of _deduplicate_papers from its current paper on
RECURSIVE DedupFrom(_, _)
DedupFrom(papers, seen) ==
    IF papers = <<>> THEN <<>>
    ELSE LET paper == Head(papers)
             arxiv_id == paper.arxiv_id
         IN  IF arxiv_id # "" /\ arxiv_id \notin seen
             THEN <<paper>> \o DedupFrom(Tail(papers), seen \cup {arxiv_id})
             ELSE DedupFrom(Tail(papers), seen)

\* a deduplication that keeps the last record of each arxiv_id
RECURSIVE _keep_last_papers(_)
_keep_last_papers(papers) ==
    IF papers = <<>> THEN <<>>
    ELSE IF /\ Head(papers).arxiv_id # ""
            /\ \A j \in 2..Len(papers) : papers[j].arxiv_id # Head(papers).arxiv_id
         THEN <<Head(papers)>> \o _keep_last_papers(Tail(papers))
         ELSE _keep_last_papers(Tail(papers))

\* ArxivKnowledgeBase._deduplicate_papers
_deduplicate_papers(papers) == DedupFrom(papers, {})

\* a score that counts every category and every author
ScoreWithoutCaps(paper) ==
    (IF 20 <= Len(paper.title) /\ Len(paper.title) <= 100 THEN 100 ELSE 0)
    + (IF Len(paper.abstract) > 500 THEN 100 ELSE 0)
    + Len(paper.categories) * 50
    + Len(paper.authors) * 20

\* popularity_score of _sort_by_popularity, before the sign is turned, in
\* hundredths
popularity_score(paper) ==
    (IF 20 <= Len(paper.title) /\ Len(paper.title) <= 100 THEN 100 ELSE 0)
    + (IF Len(paper.abstract) > 500 THEN 100 ELSE 0)
    + Min(Len(paper.categories), 3) * 50
    + Min(Len(paper.authors), 5) * 20

\* ArxivKnowledgeBase._sort_by_popularity
_sort_by_popularity(papers) ==
    PySorted(papers, [i \in 1..Len(papers) |-> 0 - popularity_score(papers[i])])

\* get_trending_papers up to its first await
TrendingStart ==
    /\ trend_pc = "idle"
    /\ trend_pc' = "searching"
    /\ UNCHANGED <<queries_done, all_papers, unique_papers, trend_exception,
                   trend_response, notTrend>>

\* a search of the loop returns; after the last one the list is deduplicated,
\* sorted, cut and returned, and the endpoint answers with it
TrendingSearchReturn ==
    /\ trend_pc = "searching"
    /\ \E papers \in TrendingAnswers(queries_done + 1) :
          LET extended == all_papers \o papers
              unique == _deduplicate_papers(extended)
              sorted_papers == _sort_by_popularity(unique)
          IN  /\ all_papers' = extended
              /\ queries_done' = queries_done + 1
              /\ IF queries_done + 1 = Len(trending_queries)
                 THEN /\ unique_papers' = unique
                      /\ trend_response' =
                            TrendingResponse(200, PySlice(sorted_papers, 0, TrendingTop))
                      /\ trend_pc' = "done"
                 ELSE UNCHANGED <<unique_papers, trend_response, trend_pc>>
    /\ UNCHANGED <<trend_exception, notTrend>>

\* a search of the loop raises: get_trending_papers logs it and returns [],
\* which the endpoint answers as a listing
TrendingSearchFail ==
    /\ trend_pc = "searching"
    /\ \E e \in ArxivFailures : trend_exception' = e
    /\ trend_response' = TrendingResponse(200, <<>>)
    /\ trend_pc' = "done"
    /\ UNCHANGED <<queries_done, all_papers, unique_papers, notTrend>>

TrendInit ==
    /\ SearchIdle
    /\ available = FALSE
    /\ CacheEmpty
    /\ CiteIdle
    /\ TrendIdle
    /\ KbIdle
    /\ SessIdle
    /\ TaskIdle
    /\ ConfigDefault

TrendNext ==
    \/ TrendingStart
    \/ TrendingSearchReturn
    \/ TrendingSearchFail

SpecTrend == TrendInit /\ [][TrendNext]_vars

\* ------------------------------------------------- question answering

\* a paper of retrieve_context, with the keys _build_citation reads; pdf_url
\* is what _parse_entry derives from arxiv_id
ContextItem(title, arxiv_id) ==
    [title |-> title, arxiv_id |-> arxiv_id,
     pdf_url |-> IF arxiv_id # "" THEN <<"https://arxiv.org/pdf/", arxiv_id, ".pdf">>
                 ELSE <<>>]

ItemA == ContextItem(<<"A">>, "A")
ItemB == ContextItem(<<"B", "b">>, "B")
ItemN == ContextItem(<<"N">>, "")
ContextItems == {ItemA, ItemB, ItemN}

\* the lists retrieve_context may return (k = 5 in the source)
ContextLists == UNION {[1..k -> ContextItems] : k \in 0..MaxContexts}

\* pieces of generated text: markers in range, out of range, with a leading
\* zero, of two digits, and broken ones
Pieces ==
    {<<"[", "1", "]">>, <<"[", "2", "]">>, <<"[", "0", "]">>,
     <<"[", "0", "2", "]">>, <<"[", "1", "2", "]">>,
     <<"x">>, <<"[">>, <<"1", "]">>, <<"[", "]">>}

RECURSIVE Concat(_)
Concat(pieces) ==
    IF pieces = <<>> THEN <<>> ELSE Head(pieces) \o Concat(Tail(pieces))

\* the texts LocalQwenLLM.generate may return
Answers == {Concat(ps) : ps \in UNION {[1..k -> Pieces] : k \in 0..MaxPieces}}

\* f"[{title}]({url})" with url = pdf_url, or the URL built from arxiv_id
_build_citation(item) ==
    LET pid == item.arxiv_id
        url == IF item.pdf_url # <<>> THEN item.pdf_url
               ELSE IF pid # "" THEN <<"https://arxiv.org/pdf/", pid, ".pdf">>
               ELSE <<>>
    IN  <<"[">> \o item.title \o <<"]", "(">> \o url \o <<")">>

\* \d+ at position i: the number of digits from there on
RECURSIVE DigitRun(_, _)
DigitRun(s, i) ==
    IF i <= Len(s) /\ s[i] \in Digits THEN 1 + DigitRun(s, i + 1) ELSE 0

\* re.findall(r"\[(\d+)\]", s) from position i: the digit groups of the
\* matches, leftmost first, the scan going on after each match
RECURSIVE FindAll(_, _)
FindAll(s, i) ==
    IF i > Len(s) THEN <<>>
    ELSE LET n == DigitRun(s, i + 1)
         IN  IF s[i] = "[" /\ n > 0 /\ i + n + 1 <= Len(s) /\ s[i + n + 1] = "]"
             THEN <<SubSeq(s, i + 1, i + n)>> \o FindAll(s, i + n + 2)
             ELSE FindAll(s, i + 1)

\* sorted(set): the numbers of the set, ascending
RECURSIVE PySortedSet(_)
PySortedSet(numbers) ==
    IF numbers = {} THEN <<>>
    ELSE LET least == CHOOSE n \in numbers : \A m \in numbers : n <= m
         IN  <<least>> \o PySortedSet(numbers \ {least})

\* the numbers in the order of the text, repeats kept
IndicesAsFound(found) == [k \in 1..Len(found) |-> DecimalValue(found[k])]

\* sorted(set(int(n) for n in re.findall(...) if n.isdigit()))
SortedIndices(found) ==
    PySortedSet({DecimalValue(found[k]) : k \in 1..Len(found)})

\* seq[i] of Python: from the end when i is negative
PyIndex(seq, i) == IF i >= 0 THEN seq[i + 1] ELSE seq[Len(seq) + i + 1]

\* a range test that lets 0 through
InRangeFromZero(idx, n) == 0 <= idx /\ idx <= n

\* 1 <= idx <= len(contexts)
InRange(idx, n) == 1 <= idx /\ idx <= n

\* the loop over indices that appends the citations
RECURSIVE CitationsOf(_, _)
CitationsOf(idxs, ctx) ==
    IF idxs = <<>> THEN <<>>
    ELSE LET idx == Head(idxs)
         IN  (IF InRange(idx, Len(ctx))
              THEN <<_build_citation(PyIndex(ctx, idx - 1))>> ELSE <<>>)
             \o CitationsOf(Tail(idxs), ctx)

\* the position of the first "](" of s at or after i, 0 when there is none
RECURSIVE FindSeparator(_, _)
FindSeparator(s, i) ==
    IF i + 1 > Len(s) THEN 0
    ELSE IF s[i] = "]" /\ s[i + 1] = "(" THEN i
    ELSE FindSeparator(s, i + 1)

\* c.split("](")[0] and c.split("](")[1] of a c that holds "]("
SplitFirst(c) == SubSeq(c, 1, FindSeparator(c, 1) - 1)
SplitSecond(c) ==
    LET rest == SubSeq(c, FindSeparator(c, 1) + 2, Len(c))
        next == FindSeparator(rest, 1)
    IN  IF next = 0 THEN rest ELSE SubSeq(rest, 1, next - 1)

\* s.lstrip("[")
RECURSIVE LStripBracket(_)
LStripBracket(s) ==
    IF s # <<>> /\ Head(s) = "[" THEN LStripBracket(Tail(s)) ELSE s

\* the source ask_question makes of a citation: "best-effort parse:
\* markdown [title](url)"
ParseCitation(c) ==
    IF FindSeparator(c, 1) # 0 /\ c[Len(c)] = ")"
    THEN [title |-> LStripBracket(SplitFirst(c)),
          url |-> PySlice(SplitSecond(c), 0, Len(SplitSecond(c)) - 1)]
    ELSE [title |-> c, url |-> <<>>]

\* the loop of ask_question over result["citations"] (include_sources is
\* left at True)
SourcesOf(cs) == [k \in 1..Len(cs) |-> ParseCitation(cs[k])]

\* the fixed answer when retrieve_context finds nothing
NoPapersAnswer == <<"no papers found">>

\* answer_with_citations up to the generation: retrieve_context returns
AskQuestion ==
    /\ cite_pc = "idle"
    /\ \E ctx \in ContextLists :
          /\ contexts' = ctx
          /\ IF ctx = <<>>
             THEN /\ cite_pc' = "done"
                  /\ answer_text' = NoPapersAnswer
             ELSE /\ cite_pc' = "llm"
                  /\ UNCHANGED answer_text
    /\ UNCHANGED <<indices, citations, sources, notCite>>

\* retrieve_context raises (ArxivClient.search re-raises): nothing is caught
RetrieveFail ==
    /\ cite_pc = "idle"
    /\ cite_pc' = "failed"
    /\ UNCHANGED <<contexts, answer_text, indices, citations, sources, notCite>>

\* the text is generated: map its markers to citations; ask_question then
\* parses the citations into sources
LlmAnswer ==
    /\ cite_pc = "llm"
    /\ \E a \in Answers :
          LET idxs == SortedIndices(FindAll(a, 1))
          IN  /\ answer_text' = a
              /\ indices' = idxs
              /\ citations' = CitationsOf(idxs, contexts)
              /\ sources' = SourcesOf(citations')
    /\ cite_pc' = "done"
    /\ UNCHANGED <<contexts, notCite>>

CiteInit ==
    /\ SearchIdle
    /\ available = FALSE
    /\ CacheEmpty
    /\ CiteIdle
    /\ TrendIdle
    /\ KbIdle
    /\ SessIdle
    /\ TaskIdle
    /\ ConfigDefault

CiteNext ==
    \/ AskQuestion
    \/ RetrieveFail
    \/ LlmAnswer

SpecCite == CiteInit /\ [][CiteNext]_vars

\* the characters a title is made of here: the ones the citation's markdown
\* is made of, and a letter
TitleChars == {"[", "]", "(", "a"}

\* the titles of at most MaxTitle characters
Titles == UNION {[1..k -> TitleChars] : k \in 0..MaxTitle}

\* ask_question from call to answer, for a question whose context is one
\* paper of any title and whose generated answer cites it ("[1]")
AskAboutOne ==
    /\ cite_pc = "idle"
    /\ \E title \in Titles, arxiv_id \in {"", "A"} :
          LET ctx == <<ContextItem(title, arxiv_id)>>
              a == <<"[", "1", "]">>
              idxs == SortedIndices(FindAll(a, 1))
          IN  /\ contexts' = ctx
              /\ answer_text' = a
              /\ indices' = idxs
              /\ citations' = CitationsOf(idxs, ctx)
              /\ sources' = SourcesOf(citations')
    /\ cite_pc' = "done"
    /\ UNCHANGED notCite

SpecQa == CiteInit /\ [][AskAboutOne]_vars

\* ------------------------------------------ knowledge base, call by call

\* the arxiv_ids asked for
RequestIds == {"A", "B"}

\* the paper arXiv holds as B: the arxiv_id of its feed entry is the last
\* segment of the entry's id URL, which carries the version
PaperBv2 == Paper("Bv2", <<"b">>, <<"c">>, <<>>, <<"cs.LG">>, 0)

\* _parse_xml_response of the feed arXiv answers id_list=arxiv_id with
LookupAnswers(arxiv_id) ==
    IF arxiv_id = "A" THEN {<<>>, <<PaperA1>>} ELSE {<<>>, <<PaperBv2>>}

\* what arXiv holds for the query of a search or a category listing
KbSearchMatches == {<<>>, <<PaperN, PaperA2>>}

\* an entry that stays fresh through its seventh day
FreshThroughDaySeven(cached_at, t) == t - cached_at <= CacheDays

\* datetime.now() - cache_time < timedelta(days=7), the clock in days
IsFresh(cached_at, t) == t - cached_at < CacheDays

\* a store that forgets the other entries
StoreOnlyPaper(cache, arxiv_id, paper) == [k \in {arxiv_id} |-> paper]

\* self._knowledge_cache["papers"][arxiv_id] = paper
StorePaper(cache, arxiv_id, paper) ==
    [k \in DOMAIN cache \cup {arxiv_id} |-> IF k = arxiv_id THEN paper ELSE cache[k]]

\* ArxivKnowledgeBase.get_paper_by_id up to its await: a fresh cached entry is
\* returned, anything else is looked up at arXiv
GetPaperStart ==
    /\ kb_pc \in {"idle", "done"}
    /\ \E arxiv_id \in RequestIds :
          /\ kb_req' = KbCall("get", arxiv_id)
          /\ IF /\ arxiv_id \in DOMAIN knowledge_cache
                /\ IsFresh(knowledge_cache[arxiv_id].cached_at, now)
             THEN /\ kb_pc' = "done"
                  /\ kb_out' = KbAnswer(200, <<knowledge_cache[arxiv_id]>>)
             ELSE /\ kb_pc' = "fetching"
                  /\ kb_out' = KbAnswer(0, <<>>)
    /\ upstream_failure' = ""
    /\ UNCHANGED <<cacheVars, notKb>>

\* PaperService.get_paper_details: always a lookup at arXiv
DetailStart ==
    /\ kb_pc \in {"idle", "done"}
    /\ \E arxiv_id \in RequestIds : kb_req' = KbCall("detail", arxiv_id)
    /\ kb_pc' = "fetching"
    /\ kb_out' = KbAnswer(0, <<>>)
    /\ upstream_failure' = ""
    /\ UNCHANGED <<cacheVars, notKb>>

\* arXiv answers the lookup with status 200: ArxivClient.get_paper_by_id
\* returns papers[0] or None; the knowledge base caches a paper under the
\* arxiv_id asked for; the endpoint answers 404 without a paper
LookupReturn ==
    /\ kb_pc = "fetching"
    /\ \E papers \in LookupAnswers(kb_req.arxiv_id) :
          LET paper == PySlice(papers, 0, 1)
          IN  IF paper = <<>>
              THEN /\ kb_out' = KbAnswer(404, <<>>)
                   /\ UNCHANGED knowledge_cache
              ELSE IF kb_req.op = "get"
                   THEN /\ knowledge_cache' =
                             StorePaper(knowledge_cache, kb_req.arxiv_id,
                                        WithCachedAt(paper[1], now))
                        /\ kb_out' = KbAnswer(200, <<WithCachedAt(paper[1], now)>>)
                   ELSE /\ kb_out' = KbAnswer(200, paper)
                        /\ UNCHANGED knowledge_cache
    /\ kb_pc' = "done"
    /\ UNCHANGED <<kb_req, upstream_failure, now, notKb>>

\* the lookup fails at arXiv (status, network): ArxivClient.get_paper_by_id
\* logs it and returns None, and the endpoint answers 404
LookupFail ==
    /\ kb_pc = "fetching"
    /\ \E e \in ArxivFailures : upstream_failure' = e
    /\ kb_out' = KbAnswer(404, <<>>)
    /\ kb_pc' = "done"
    /\ UNCHANGED <<kb_req, cacheVars, notKb>>

\* ArxivKnowledgeBase.search_papers and its endpoint, from call to answer
\* (query "b", the default max_results, no filter, the stub index): the
\* returned papers are cached
KbSearchCall ==
    /\ kb_pc \in {"idle", "done"}
    /\ \E matches \in KbSearchMatches :
          LET query == preprocess_query(<<"b">>)
              papers == ArxivSearch(matches, DefaultLimit * 2)
              filtered == KbApplyFilters(papers, <<>>, 0, 0)
              final_results == PySlice(_sort_papers(filtered, query), 0, DefaultLimit)
          IN  /\ knowledge_cache' = UpdateCache(knowledge_cache, final_results, now)
              /\ kb_out' = KbAnswer(200, CachedPapers(final_results, now))
    /\ kb_req' = KbCall("search", "")
    /\ kb_pc' = "done"
    /\ upstream_failure' = ""
    /\ UNCHANGED <<now, notKb>>

\* the same call when ArxivClient.search raises: re-raised, answered 500
KbSearchFailed ==
    /\ kb_pc \in {"idle", "done"}
    /\ \E e \in ArxivFailures : upstream_failure' = e
    /\ kb_out' = KbAnswer(500, <<>>)
    /\ kb_req' = KbCall("search", "")
    /\ kb_pc' = "done"
    /\ UNCHANGED <<cacheVars, notKb>>

\* get_papers_by_category and its endpoint: the papers of the search, or []
\* when the search raises; the papers map is not written
CategoryCall ==
    /\ kb_pc \in {"idle", "done"}
    /\ \E e \in {""} \cup ArxivFailures, matches \in KbSearchMatches :
          /\ upstream_failure' = e
          /\ kb_out' = KbAnswer(200, IF e = "" THEN matches ELSE <<>>)
    /\ kb_req' = KbCall("category", "")
    /\ kb_pc' = "done"
    /\ UNCHANGED <<cacheVars, notKb>>

\* update_knowledge_base and the sync endpoint: get_papers_by_category for
\* each category, failures answered [] one by one, then the totals are
\* written; the papers map is not
UpdateCall ==
    /\ kb_pc \in {"idle", "done"}
    /\ \E e \in {""} \cup ArxivFailures : upstream_failure' = e
    /\ kb_out' = KbAnswer(200, <<>>)
    /\ kb_req' = KbCall("update", "")
    /\ kb_pc' = "done"
    /\ UNCHANGED <<cacheVars, notKb>>

\* a day passes
Tick ==
    /\ now < MaxDay
    /\ now' = now + 1
    /\ UNCHANGED <<knowledge_cache, kbVars, notKb>>

KbInit ==
    /\ SearchIdle
    /\ available = FALSE
    /\ CacheEmpty
    /\ CiteIdle
    /\ TrendIdle
    /\ KbIdle
    /\ SessIdle
    /\ TaskIdle
    /\ ConfigDefault

KbNext ==
    \/ GetPaperStart
    \/ DetailStart
    \/ LookupReturn
    \/ LookupFail
    \/ KbSearchCall
    \/ KbSearchFailed
    \/ CategoryCall
    \/ UpdateCall
    \/ Tick

SpecKb == KbInit /\ [][KbNext]_vars

\* --------------------------------- the shared client, requests in flight

\* The module-level knowledge_base holds one ArxivClient for every request.
\* Each call is a chain of suspend points: the GET is awaited, then the body;
\* between two of them the other request runs.  arXiv is healthy here and
\* holds what is asked for: a request running alone is answered with 200.

\* the calls that go through the shared client: search_papers (the client's
\* search) and get_paper_by_id
CallKinds == {"search", "paper"}

\* what the endpoint answers when the client's call fails: search re-raises
\* and the endpoint answers 500; get_paper_by_id returns None and the
\* endpoint answers 404
StatusOnFailure(kind) == IF kind = "search" THEN 500 ELSE 404

\* finally: if self.session: await self.session.close(); self.session = None
\* (whatever session the client holds now, not the one the call ran on)
FinallyClose ==
    /\ closed' = IF session # 0 THEN closed \cup {session} ELSE closed
    /\ session' = 0

\* a request enters the client: if not self.session: self.session =
\* ClientSession(); then self.session.get(...) is awaited
CallStart(r) ==
    /\ calls[r].pc \in {"idle", "done"}
    /\ started < MaxCalls
    /\ started' = started + 1
    /\ created' = IF session = 0 THEN created + 1 ELSE created
    /\ session' = IF session = 0 THEN created + 1 ELSE session
    /\ \E kind \in CallKinds :
          calls' = [calls EXCEPT ![r] = ClientCall("get", kind, session', 0)]
    /\ UNCHANGED <<closed, notSess>>

\* the GET is answered with status 200; response.text() is awaited
HeadersArrive(r) ==
    /\ calls[r].pc = "get"
    /\ calls' = [calls EXCEPT ![r].pc = "text"]
    /\ UNCHANGED <<session, closed, created, started, notSess>>

\* the body arrives and is parsed; the call returns through finally
BodyArrive(r) ==
    /\ calls[r].pc = "text"
    /\ calls' = [calls EXCEPT ![r].pc = "done", ![r].status_code = 200]
    /\ FinallyClose
    /\ UNCHANGED <<created, started, notSess>>

\* the session the call runs on has been closed: its connection is gone and
\* the awaited GET or body raises; the call leaves through except and finally
Disconnected(r) ==
    /\ calls[r].pc \in {"get", "text"}
    /\ calls[r].using \in closed
    /\ calls' = [calls EXCEPT ![r].pc = "done",
                              ![r].status_code = StatusOnFailure(calls[r].kind)]
    /\ FinallyClose
    /\ UNCHANGED <<created, started, notSess>>

SessInit ==
    /\ SearchIdle
    /\ available = FALSE
    /\ CacheEmpty
    /\ CiteIdle
    /\ TrendIdle
    /\ KbIdle
    /\ SessIdle
    /\ TaskIdle
    /\ ConfigDefault

SessNext ==
    \/ \E r \in Requests : CallStart(r)
    \/ \E r \in Requests : HeadersArrive(r)
    \/ \E r \in Requests : BodyArrive(r)
    \/ \E r \in Requests : Disconnected(r)

SpecSess == SessInit /\ [][SessNext]_vars

\* ------------------------------ the shared cache, tasks running together

\* Requests and background updates on the module-level knowledge_base run as
\* tasks of one event loop: a task runs until its next await (the call to
\* arXiv), then another task may run.  Writing the file is taken to succeed
\* (_save_cache logs a failed write and goes on).

\* the category lists an update is asked for
UpdateLists == {<<"cs.AI">>, <<"cs.AI", "cs.LG">>}

\* the identifiers of the papers a search returns, after the pipeline
SearchHits == {<<>>, <<"A">>, <<"A", "B">>}

\* d[k] = v on a dict
PutKey(d, k, v) == [x \in DOMAIN d \cup {k} |-> IF x = k THEN v ELSE d[x]]

\* a write of the file that fails: the file is what it was
WriteFails(file, memory) == file

\* _save_cache: json.dump(self._knowledge_cache, f) into the opened file
_save_cache(file, memory) == memory

\* the loop of _update_cache on the papers map
RECURSIVE CacheAll(_, _, _)
CacheAll(papers, ids, t) ==
    IF ids = <<>> THEN papers
    ELSE CacheAll(PutKey(papers, Head(ids), t), Tail(ids), t)

\* a task calls update_knowledge_base(categories): total_updated = 0, and
\* get_papers_by_category of the first category awaits arXiv
TaskUpdateStart(t) ==
    /\ writers[t].pc \in {"idle", "done"}
    /\ writes < MaxWrites
    /\ writes' = writes + 1
    /\ \E categories \in UpdateLists :
          writers' = [writers EXCEPT ![t] =
                         Writer("update", "await", categories, 0, <<>>, {})]
    /\ UNCHANGED <<_knowledge_cache, cache_file, completed, now, notTask>>

\* lines 271-277 once the category at hand has brought n papers: the next
\* category is awaited, or, after the last, the totals are written and saved
UpdateStep(t, n, memory) ==
    LET category == Head(writers[t].arg)
        rest == Tail(writers[t].arg)
        total_updated == writers[t].total_updated + n
        fetched == PutKey(writers[t].fetched, category, n)
    IN  IF rest # <<>>
        THEN /\ writers' = [writers EXCEPT ![t] =
                               Writer("update", "await", rest, total_updated,
                                      fetched, {})]
             /\ _knowledge_cache' = memory
             /\ UNCHANGED completed
        ELSE /\ writers' = [writers EXCEPT ![t] =
                               Writer("update", "done", rest, total_updated,
                                      fetched, {})]
             /\ _knowledge_cache' = [memory EXCEPT !.last_updated = now,
                                        !.total_papers = total_updated]
             /\ completed' = completed \cup
                                 {[at |-> now, total_papers |-> total_updated]}

\* arXiv answers the category listing with n papers:
\* _update_category_stats(category, n) writes and saves, then the run goes on
TaskCategoryReturn(t) ==
    /\ writers[t].op = "update"
    /\ writers[t].pc = "await"
    /\ \E n \in 0..MaxFetched :
          UpdateStep(t, n, [_knowledge_cache EXCEPT !.categories =
                               PutKey(_knowledge_cache.categories, Head(writers[t].arg), n)])
    /\ cache_file' = _save_cache(cache_file, _knowledge_cache')
    /\ now' = now + 1
    /\ UNCHANGED <<writes, notTask>>

\* the category listing fails at arXiv: get_papers_by_category answers [],
\* the statistics of the category are not written, the run goes on
TaskCategoryFail(t) ==
    /\ writers[t].op = "update"
    /\ writers[t].pc = "await"
    /\ UpdateStep(t, 0, _knowledge_cache)
    /\ cache_file' = IF writers'[t].pc = "done"
                     THEN _save_cache(cache_file, _knowledge_cache') ELSE cache_file
    /\ now' = now + 1
    /\ UNCHANGED <<writes, notTask>>

\* a task calls get_paper_by_id: a fresh cached paper is returned at once,
\* else the lookup at arXiv is awaited
TaskGetStart(t) ==
    /\ writers[t].pc \in {"idle", "done"}
    /\ writes < MaxWrites
    /\ writes' = writes + 1
    /\ \E arxiv_id \in RequestIds :
          writers' = [writers EXCEPT ![t] =
              Writer("get",
                     IF /\ arxiv_id \in DOMAIN _knowledge_cache.papers
                        /\ IsFresh(_knowledge_cache.papers[arxiv_id], now)
                     THEN "done" ELSE "await",
                     arxiv_id, 0, <<>>, {})]
    /\ UNCHANGED <<_knowledge_cache, cache_file, completed, now, notTask>>

\* the lookup returns: a paper is stored under the identifier and the cache
\* is saved; without a paper (none found, or the lookup failed) nothing is
TaskGetReturn(t) ==
    /\ writers[t].op = "get"
    /\ writers[t].pc = "await"
    /\ \E found \in BOOLEAN :
          IF found
          THEN /\ _knowledge_cache' = [_knowledge_cache EXCEPT !.papers =
                               PutKey(_knowledge_cache.papers, writers[t].arg, now)]
               /\ cache_file' = _save_cache(cache_file, _knowledge_cache')
               /\ writers' = [writers EXCEPT ![t].pc = "done",
                                             ![t].stored = {writers[t].arg}]
          ELSE /\ writers' = [writers EXCEPT ![t].pc = "done"]
               /\ UNCHANGED <<_knowledge_cache, cache_file>>
    /\ now' = now + 1
    /\ UNCHANGED <<writes, completed, notTask>>

\* a task calls search_papers (use_cache left at True): arXiv is awaited
TaskSearchStart(t) ==
    /\ writers[t].pc \in {"idle", "done"}
    /\ writes < MaxWrites
    /\ writes' = writes + 1
    /\ writers' = [writers EXCEPT ![t] = Writer("search", "await", <<>>, 0, <<>>, {})]
    /\ UNCHANGED <<_knowledge_cache, cache_file, completed, now, notTask>>

\* the search returns and the pipeline has run: _update_cache stores every
\* returned paper and saves
TaskSearchReturn(t) ==
    /\ writers[t].op = "search"
    /\ writers[t].pc = "await"
    /\ \E ids \in SearchHits :
          /\ _knowledge_cache' = [_knowledge_cache EXCEPT !.papers =
                                     CacheAll(_knowledge_cache.papers, ids, now)]
          /\ writers' = [writers EXCEPT ![t].pc = "done",
                                        ![t].stored = RangeOf(ids)]
    /\ cache_file' = _save_cache(cache_file, _knowledge_cache')
    /\ now' = now + 1
    /\ UNCHANGED <<writes, completed, notTask>>

\* the search fails at arXiv: search_papers re-raises, nothing is stored
TaskSearchFail(t) ==
    /\ writers[t].op = "search"
    /\ writers[t].pc = "await"
    /\ writers' = [writers EXCEPT ![t].pc = "done"]
    /\ now' = now + 1
    /\ UNCHANGED <<_knowledge_cache, cache_file, writes, completed, notTask>>

TaskNext ==
    \/ \E t \in Tasks : TaskUpdateStart(t)
    \/ \E t \in Tasks : TaskCategoryReturn(t)
    \/ \E t \in Tasks : TaskCategoryFail(t)
    \/ \E t \in Tasks : TaskGetStart(t)
    \/ \E t \in Tasks : TaskGetReturn(t)
    \/ \E t \in Tasks : TaskSearchStart(t)
    \/ \E t \in Tasks : TaskSearchReturn(t)
    \/ \E t \in Tasks : TaskSearchFail(t)

\* the knowledge base as constructed, no task started
SpecTask == KbInit /\ [][TaskNext]_vars

\* --------------------------------------------------------- configuration

\* categories_str.split(","): the pieces between the commas
RECURSIVE SplitComma(_, _)
SplitComma(s, cur) ==
    IF s = <<>> THEN <<cur>>
    ELSE IF Head(s) = "," THEN <<cur>> \o SplitComma(Tail(s), <<>>)
    ELSE SplitComma(Tail(s), Append(cur, Head(s)))

\* [cat.strip() for cat in pieces if cat.strip()]
RECURSIVE StrippedNonEmpty(_)
StrippedNonEmpty(pieces) ==
    IF pieces = <<>> THEN <<>>
    ELSE (IF Strip(Head(pieces)) # <<>> THEN <<Strip(Head(pieces))>> ELSE <<>>)
             \o StrippedNonEmpty(Tail(pieces))

\* the property Config.SUPPORTED_CATEGORIES, read on an instance
SUPPORTED_CATEGORIES(settings) ==
    StrippedNonEmpty(SplitComma(settings.categories_str, <<>>))

\* not cls.SUPPORTED_CATEGORIES inside the classmethod: read on the class,
\* the attribute is the property object itself, which is true of any
\* environment
ClassCategoriesEmpty(settings) == FALSE

\* the environments the class may be loaded in
Environments ==
    {Settings(base_url, max_results, timeout, categories_str) :
        base_url \in {"", "http://export.arxiv.org/api/query"},
        max_results \in (-1)..MaxSetting,
        timeout \in (-1)..MaxSetting,
        categories_str \in UNION {[1..k -> {"c", ",", " "}] : k \in 0..MaxEnv}}

\* Config.validate: each check raises ValueError, the except returns False
validate(settings) ==
    IF settings.ARXIV_API_BASE_URL = "" THEN FALSE
    ELSE IF settings.ARXIV_MAX_RESULTS <= 0 THEN FALSE
    ELSE IF settings.ARXIV_REQUEST_TIMEOUT <= 0 THEN FALSE
    ELSE IF ClassCategoriesEmpty(settings) THEN FALSE
    ELSE TRUE

\* the class is loaded in some environment, all else as constructed
ConfigInit ==
    /\ SearchIdle
    /\ available = FALSE
    /\ CacheEmpty
    /\ CiteIdle
    /\ TrendIdle
    /\ KbIdle
    /\ SessIdle
    /\ TaskIdle
    /\ environ \in Environments
    /\ config_pc = "loaded"
    /\ valid = FALSE

\* Config.validate() is called
Validate ==
    /\ config_pc = "loaded"
    /\ valid' = validate(environ)
    /\ config_pc' = "validated"
    /\ UNCHANGED <<environ, notConfig>>

SpecConfig == ConfigInit /\ [][Validate]_vars

\* ---------------------------------------------------------------- claims

Ranked == pc = "done"
Filtered == pc \in {"vector", "done"}

\* the papers of a list that have no arxiv_id
WithoutId(papers) == SelectSeq(papers, LAMBDA r : r.arxiv_id = "")

\* the request's category filter lets the paper through
CategoryAllows(r) ==
    IF req.svc = "search"
    THEN req.category = "" \/ req.category \in RangeOf(r.categories)
    ELSE req.categories = <<>>
         \/ RangeOf(req.categories) \cap RangeOf(r.categories) # {}

\* the first character of the text that is not a blank is a digit
StartsWithDigit(text) ==
    \E i \in 1..Len(text) :
        /\ text[i] \in Digits
        /\ \A j \in 1..(i - 1) : text[j] = " "

\* the published year as the claims read it: the leading digits
RECURSIVE LeadingNumber(_, _)
LeadingNumber(text, acc) ==
    IF text = <<>> \/ Head(text) \notin Digits THEN acc
    ELSE LeadingNumber(Tail(text), 10 * acc + DigitVal(Head(text)))

\* C1: the ranked list never holds two records with the same non-empty
\* arxiv_id, whatever arXiv and the similarity index returned and whether or
\* not the index is available.
C1_DedupInvariant ==
    Ranked =>
        \A i, j \in 1..Len(sorted_results) :
            (i # j /\ sorted_results[i].arxiv_id # "")
                => sorted_results[i].arxiv_id # sorted_results[j].arxiv_id

\* C2: when a category filter or a year range is supplied, every record of
\* the ranked list is in an allowed category and, if its year parses, has a
\* year inside [year_from, year_to].
C2_FilterHolds ==
    Ranked =>
        \A i \in 1..Len(sorted_results) :
            LET r == sorted_results[i]
                year == LeadingNumber(r.published, 0)
            IN  /\ CategoryAllows(r)
                /\ StartsWithDigit(r.published) =>
                      /\ req.year_from # 0 => year >= req.year_from
                      /\ req.year_to # 0 => year <= req.year_to

\* C3: a record whose published field is empty or does not start with an
\* integer year passes the year filter for every year_from and year_to: the
\* filtered list holds exactly the records of the arXiv answer of that kind
\* that the category filter allows, in their order.
C3_FailOpenYear ==
    Filtered =>
        SelectSeq(arxiv_results,
                  LAMBDA r : ~StartsWithDigit(r.published) /\ CategoryAllows(r))
          = SelectSeq(filtered_results, LAMBDA r : ~StartsWithDigit(r.published))

\* C3 witness: a year range is given and a paper published "x-1" is kept.
C3_Witness ==
    /\ Filtered
    /\ req.year_from = 2020
    /\ \E i \in 1..Len(filtered_results) :
          filtered_results[i].published = <<"x", "-", "1">>

\* the primary records the claims' merge appends: those whose identifier did
\* not appear before (a record without identifier is always appended)
RECURSIVE ClaimedFresh(_, _)
ClaimedFresh(primary, seen) ==
    IF primary = <<>> THEN <<>>
    ELSE LET r == Head(primary)
         IN  IF r.arxiv_id # "" /\ r.arxiv_id \in seen
             THEN ClaimedFresh(Tail(primary), seen)
             ELSE <<r>> \o ClaimedFresh(Tail(primary), seen \cup {r.arxiv_id})

\* C4: the merged list is every similarity-index record in its order, then
\* every primary record whose identifier did not already appear, in its
\* order; on a collision the similarity-index record is the one kept.
C4_MergeOrder ==
    (Ranked /\ available) =>
        merged_results = vector_results \o
            ClaimedFresh(filtered_results,
                         {vector_results[i].arxiv_id : i \in 1..Len(vector_results)})

\* C5: a record without arxiv_id is never removed by the merge: the merged
\* list holds as many of them as its two inputs together.
C5_NoIdAlwaysKept ==
    (Ranked /\ available) =>
        Len(WithoutId(merged_results))
            = Len(WithoutId(filtered_results)) + Len(WithoutId(vector_results))

\* the score the request's service ranks by, in hundredths
ServiceScore(r) ==
    IF req.svc = "search" THEN SearchScore(r, processed_query)
    ELSE KbScore(r, processed_query)

\* C6: the ranked list is a permutation of the merged list, sorted by
\* non-increasing score, and records of equal score keep the order they had
\* after the merge step.
C6_StableRanking ==
    Ranked =>
        LET n == Len(merged_results)
        IN  /\ Len(sorted_results) = n
            /\ \E f \in [1..n -> 1..n] :
                  /\ \A k, l \in 1..n : k # l => f[k] # f[l]
                  /\ \A k \in 1..n : sorted_results[k] = merged_results[f[k]]
                  /\ \A k, l \in 1..n : k < l =>
                        \/ ServiceScore(sorted_results[k]) > ServiceScore(sorted_results[l])
                        \/ /\ ServiceScore(sorted_results[k]) = ServiceScore(sorted_results[l])
                           /\ f[k] < f[l]

\* C6 witness: two different records of equal score were ranked, the one that
\* was second after the merge with its identifier, the first without.
C6_Witness ==
    /\ Ranked
    /\ merged_results = <<PaperN, PaperA1>>
    /\ sorted_results = <<PaperN, PaperA1>>
    /\ ServiceScore(PaperN) = ServiceScore(PaperA1)

\* the words of a lower-cased query, as the claims count them: the parts
\* between blanks
RECURSIVE ClaimedWords(_, _)
ClaimedWords(text, word) ==
    IF text = <<>> THEN (IF word = <<>> THEN <<>> ELSE <<word>>)
    ELSE IF Head(text) = " "
         THEN (IF word = <<>> THEN <<>> ELSE <<word>>) \o ClaimedWords(Tail(text), <<>>)
         ELSE ClaimedWords(Tail(text), Append(word, Head(text)))

\* the composite score as C7 states it, in hundredths: 10 for the query in
\* the title, 1 for each word of the query in the abstract, (year - 2000) *
\* 0.01 for a year that parses
ClaimedScore(r) ==
    LET q == Lower(processed_query)
        words == ClaimedWords(q, <<>>)
        hits == {i \in 1..Len(words) : Contains(Lower(r.abstract), words[i])}
    IN  (IF Contains(Lower(r.title), q) THEN 1000 ELSE 0)
        + 100 * Cardinality(hits)
        + (IF StartsWithDigit(r.published)
           THEN LeadingNumber(r.published, 0) - 2000 ELSE 0)

OrderedBy(results, Score(_)) ==
    \A k, l \in 1..Len(results) : k < l => Score(results[k]) >= Score(results[l])

AmendedScore(r) ==
    ClaimedScore(r) + (IF req.svc = "search" THEN 10 * r.citation_count ELSE 0)

C8_Pagination ==
    (Ranked /\ req.svc = "search") =>
        LET total == Len(sorted_results)
            page == response.papers
        IN  /\ response.total = total
            /\ Len(page) = Min(req.limit, Max(total - req.offset, 0))
            /\ \A i \in 1..Len(page) :
                  page[i] = FormatResult(sorted_results[req.offset + i])
            /\ (arxiv_results = <<>> /\ vector_results = <<>>) =>
                  (response.total = 0 /\ page = <<>>)

\* C8 witness: a page from inside the ranked list that the limit cuts short.
C8_Witness ==
    /\ Ranked
    /\ req.svc = "search"
    /\ req.offset = 1
    /\ req.limit = 1
    /\ Len(sorted_results) = 2
    /\ sorted_results[1] # sorted_results[2]
    /\ response.papers = <<FormatResult(sorted_results[2])>>

\* C9: a search with limit 0 whose query matches at least one paper returns
\* an empty page and a non-zero total.
C9_LimitZeroTotal ==
    (Ranked /\ req.svc = "search" /\ req.limit = 0
       /\ \E i \in 1..Len(upstream) :
             /\ CategoryAllows(upstream[i])
             /\ _check_year_filter(upstream[i], req.year_from, req.year_to)) =>
        (response.papers = <<>> /\ response.total > 0)

\* C10: arXiv returns one record that carries the filter category, is
\* published in a year >= 2000 and has the query in its title, and the
\* similarity index contributes nothing; the search with offset 0 and limit
\* 10 returns that record alone, total 1, and its score is at least 10.
C10_EndToEnd ==
    (/\ Ranked
     /\ req.svc = "search"
     /\ req.offset = 0
     /\ req.limit = DefaultLimit
     /\ req.category # ""
     /\ req.year_from = 0
     /\ req.year_to = 0
     /\ Len(arxiv_results) = 1
     /\ req.category \in RangeOf(arxiv_results[1].categories)
     /\ StartsWithDigit(arxiv_results[1].published)
     /\ LeadingNumber(arxiv_results[1].published, 0) >= 2000
     /\ Contains(Lower(arxiv_results[1].title), Lower(processed_query))
     /\ vector_results = <<>>) =>
        /\ response.papers = <<FormatResult(arxiv_results[1])>>
        /\ response.total = 1
        /\ SearchScore(arxiv_results[1], processed_query) >= 1000


\* ------------------------------------------------------ claims C11, C12

\* an answer was generated over a non-empty context list
Answered == cite_pc = "done" /\ contexts # <<>>

\* the integers the text holds in brackets, as the claims read them: digits,
\* and nothing else, between a "[" and a "]"
Bracketed(text) ==
    {LeadingNumber(SubSeq(text, a + 1, b - 1), 0) :
        <<a, b>> \in {<<a, b>> \in (1..Len(text)) \X (1..Len(text)) :
                        /\ a + 1 < b
                        /\ text[a] = "["
                        /\ text[b] = "]"
                        /\ \A k \in (a + 1)..(b - 1) : text[k] \in Digits}}

\* the cited indices: the bracketed integers from 1 to N
Cited(text, n) == {i \in Bracketed(text) : 1 <= i /\ i <= n}

\* the numbers of a set in ascending order
Ascending(numbers) ==
    CHOOSE f \in [1..Cardinality(numbers) -> numbers] :
        \A k, l \in 1..Cardinality(numbers) : k < l => f[k] < f[l]

\* C11: whatever the order of the markers in the answer and however often
\* each appears, the citations are those of the cited indices in strictly
\* ascending order of index, one citation for each cited index.
C11_CitationOrdering ==
    Answered =>
        LET cited == Ascending(Cited(answer_text, Len(contexts)))
        IN  /\ Len(citations) = Len(cited)
            /\ \A k \in 1..Len(cited) :
                   citations[k] = _build_citation(contexts[cited[k]])

\* the answer cites 2, then 1, then 2 again, and both contexts are cited once
C11_Witness ==
    /\ Answered
    /\ answer_text = <<"[", "2", "]", "[", "1", "]", "[", "2", "]">>
    /\ Len(contexts) = 2
    /\ contexts[1] # contexts[2]
    /\ citations = <<_build_citation(contexts[1]), _build_citation(contexts[2])>>

\* C12: a bracketed integer i yields a citation if and only if 1 <= i <= N,
\* the citation is the one of context[i-1] (contexts[i], counting from 1),
\* and the integers out of range, 0 and those above N among them, are
\* dropped without an error: with no marker in range there is no citation.
C12_CitationRange ==
    /\ cite_pc = "llm" => contexts # <<>>
    /\ Answered =>
        /\ \A i \in Cited(answer_text, Len(contexts)) :
               _build_citation(contexts[i]) \in RangeOf(citations)
        /\ \A k \in 1..Len(citations) :
               \E i \in Cited(answer_text, Len(contexts)) :
                   citations[k] = _build_citation(contexts[i])
        /\ Len(citations) <= Cardinality(Cited(answer_text, Len(contexts)))
        /\ Cited(answer_text, Len(contexts)) = {} => citations = <<>>

\* the markers 0, 12 and 2 over one context: all out of range, no citation
C12_Witness ==
    /\ Answered
    /\ Len(contexts) = 1
    /\ answer_text = <<"[", "0", "]", "[", "1", "2", "]", "[", "2", "]">>
    /\ indices = <<0, 2, 12>>
    /\ citations = <<>>


\* ------------------------------------------------------ claims C13, C14

\* the trending listing was computed (no search of the loop raised)
Listed == trend_pc = "done" /\ trend_exception = ""

\* where an identifier first occurs in a list
FirstOf(papers, id) ==
    CHOOSE i \in 1..Len(papers) :
        /\ papers[i].arxiv_id = id
        /\ \A j \in 1..(i - 1) : papers[j].arxiv_id # id

\* C13: in the trending path the deduplicated list holds each identifier of
\* the concatenated list once and no more, the record kept for an identifier
\* is its first occurrence in the concatenated list, and the kept records are
\* in the order of the concatenated list.
C13_TrendingDedup ==
    Listed =>
        LET n == Len(unique_papers)
            id(k) == unique_papers[k].arxiv_id
        IN  /\ \A k, l \in 1..n : k # l => id(k) # id(l)
            /\ \A i \in 1..Len(all_papers) :
                   all_papers[i].arxiv_id # ""
                       => \E k \in 1..n : id(k) = all_papers[i].arxiv_id
            /\ \A k \in 1..n :
                   id(k) # "" =>
                       /\ \E i \in 1..Len(all_papers) : all_papers[i].arxiv_id = id(k)
                       /\ unique_papers[k] = all_papers[FirstOf(all_papers, id(k))]
            /\ \A k, l \in 1..n :
                   (k < l /\ id(k) # "" /\ id(l) # "")
                       => FirstOf(all_papers, id(k)) < FirstOf(all_papers, id(l))

\* two records of identifier A were listed, and the first of them was kept
C13_Witness ==
    /\ Listed
    /\ Len(all_papers) > 2
    /\ all_papers[1] = TrendA2
    /\ all_papers[2] = TrendA1
    /\ unique_papers[1] = TrendA2
    /\ \A k \in 1..Len(unique_papers) : unique_papers[k] # TrendA1

\* the popularity score as the claim gives it, in hundredths
ClaimedPopularity(r) ==
    (IF Len(r.title) \in 20..100 THEN 100 ELSE 0)
    + (IF Len(r.abstract) >= 501 THEN 100 ELSE 0)
    + 50 * (IF Len(r.categories) < 3 THEN Len(r.categories) ELSE 3)
    + 20 * (IF Len(r.authors) < 5 THEN Len(r.authors) ELSE 5)

\* C14: the trending list is the deduplicated list sorted by non-increasing
\* popularity score, records of equal score in their order in the
\* deduplicated list, cut after 20 records.
C14_TrendingRanking ==
    Listed =>
        LET t == trend_response.trending_papers
            n == Len(unique_papers)
            place(r) == CHOOSE i \in 1..n : unique_papers[i] = r
            Before(i, j) ==
                LET si == ClaimedPopularity(unique_papers[i])
                    sj == ClaimedPopularity(unique_papers[j])
                IN  si > sj \/ (si = sj /\ i < j)
        IN  /\ Len(t) = (IF n < 20 THEN n ELSE 20)
            /\ trend_response.total = Len(t)
            /\ \A k \in 1..Len(t) : \E i \in 1..n : unique_papers[i] = t[k]
            /\ \A k, l \in 1..Len(t) : k < l => Before(place(t[k]), place(t[l]))
            /\ \A i \in 1..n :
                   (\A k \in 1..Len(t) : t[k] # unique_papers[i])
                       => \A k \in 1..Len(t) : Before(place(t[k]), i)

\* more than 20 records were ranked, 20 were returned, records of equal score
\* among them, and the order is not the one of the deduplicated list
C14_Witness ==
    /\ Listed
    /\ Len(unique_papers) > 20
    /\ Len(trend_response.trending_papers) = 20
    /\ trend_response.trending_papers # SubSeq(unique_papers, 1, 20)
    /\ \E k \in 1..19 :
          /\ trend_response.trending_papers[k] # trend_response.trending_papers[k + 1]
          /\ ClaimedPopularity(trend_response.trending_papers[k])
               = ClaimedPopularity(trend_response.trending_papers[k + 1])


\* ------------------------------------------------------ claims C15, C16

\* the request ended because the call to arXiv failed
PrimaryFailed == pc = "failed" /\ error.detail[2] \in ArxivFailures

\* C15: when the call to arXiv fails during a search, the request ends in an
\* error of status 500 that carries a message, no papers are returned, and
\* none of the filter, merge, rank and paginate steps has run.
C15_NoPartialResults ==
    [][(pc = "arxiv" /\ pc' \notin {"vector", "done"})
          => /\ pc' = "failed"
             /\ error'.status_code = 500
             /\ Len(error'.detail) = 2
             /\ error'.detail[2] \in ArxivFailures
             /\ response' = NoResponse
             /\ arxiv_results' = <<>>
             /\ filtered_results' = <<>>
             /\ merged_results' = <<>>
             /\ sorted_results' = <<>>
             /\ knowledge_cache' = knowledge_cache]_vars

\* a search of SearchService failed at the call to arXiv and was answered 500
C15_Witness ==
    /\ PrimaryFailed
    /\ req.svc = "search"
    /\ error.status_code = 500
    /\ response = NoResponse

\* C16: once the index is being asked, the request succeeds whatever the
\* index does: when similarity_search raises, the result is the one computed
\* from the filtered arXiv results alone.
C16_BestEffortIndex ==
    [][pc = "vector"
          => /\ pc' = "done"
             /\ error' = NoError
             /\ (vector_results' = <<>> => merged_results' = filtered_results)]_vars


\* ------------------------------------------------- claims C17, C18, C19

\* C17: a call whose request to arXiv failed is answered 500, and 404 is
\* answered only when arXiv answered and held no such paper: a failure at
\* arXiv is never answered as not-found nor as a successful, empty result.
C17_ErrorTaxonomy ==
    kb_pc = "done" =>
        /\ upstream_failure # "" => kb_out.status_code = 500
        /\ kb_out.status_code = 404 => upstream_failure = ""

\* C18: get_paper_by_id answers from the cache, without a call to arXiv,
\* exactly when the identifier is cached with a cached_at less than 7 days
\* old; otherwise it looks the paper up on that call; a paper found
\* replaces the entry, with the time of the lookup as cached_at; when none
\* is found the (stale) entry stays as it is.
C18_CacheFreshness ==
    [][/\ (kb_pc \in {"idle", "done"} /\ kb_req'.op = "get" /\ now' = now) =>
            LET id == kb_req'.arxiv_id
                fresh == /\ id \in DOMAIN knowledge_cache
                         /\ now - knowledge_cache[id].cached_at < 7
            IN  /\ knowledge_cache' = knowledge_cache
                /\ fresh => /\ kb_pc' = "done"
                            /\ kb_out' = KbAnswer(200, <<knowledge_cache[id]>>)
                /\ ~fresh => kb_pc' = "fetching"
       /\ (kb_pc = "fetching" /\ kb_req.op = "get" /\ kb_pc' = "done") =>
            LET id == kb_req.arxiv_id
            IN  IF kb_out'.status_code = 200
                THEN /\ id \in DOMAIN knowledge_cache'
                     /\ knowledge_cache'[id].cached_at = now
                     /\ kb_out'.papers = <<knowledge_cache'[id]>>
                     /\ \A k \in DOMAIN knowledge_cache \ {id} :
                            knowledge_cache'[k] = knowledge_cache[k]
                ELSE knowledge_cache' = knowledge_cache]_vars

\* a lookup of A found the cached entry 7 days old or older, asked arXiv,
\* got no paper, and the entry is still there
C18_Witness ==
    /\ kb_pc = "done"
    /\ kb_req = KbCall("get", "A")
    /\ upstream_failure = ""
    /\ kb_out.status_code = 404
    /\ "A" \in DOMAIN knowledge_cache
    /\ now - knowledge_cache["A"].cached_at >= 7

FetchedFor(k) ==
    /\ upstream_failure' = ""
    /\ kb_out'.status_code = 200
    /\ \/ \E i \in 1..Len(kb_out'.papers) : kb_out'.papers[i].arxiv_id = k
       \/ (kb_req'.op = "get" /\ kb_req'.arxiv_id = k /\ kb_out'.papers # <<>>)

InFlight(r) == calls[r].pc \in {"get", "text"}

\* C20: request isolation.  For any interleaving of two requests in flight on
\* the shared knowledge base, the session a request in flight runs on is
\* never closed by the other request's call completing, and each request is
\* answered as it is when it runs alone: with arXiv healthy, 200.
C20_RequestIsolation ==
    \A r \in Requests :
        /\ InFlight(r) => calls[r].using \notin closed
        /\ calls[r].pc = "done" => calls[r].status_code = 200

\* -------------------------------------------------------------- claim C21

\* C21: sequential chain without retry.  Within one search request the call
\* to arXiv is issued once, at the start of the request, and never again,
\* not even after it failed; the similarity index is consulted only in the
\* step in which the arXiv call returns; the ranked list and the page are
\* made only in the step that ends the last call made (the arXiv call when
\* there is no index, else the index call); a request that is over issues
\* no call.
C21_SequentialChain ==
    [][/\ pc' = "arxiv" => pc = "idle"
       /\ pc' = "idle" => pc = "idle"
       /\ pc' = "vector" => pc = "arxiv" /\ available
       /\ pc' = "done" => pc = (IF available THEN "vector" ELSE "arxiv")
       /\ pc' # "done" => sorted_results' = <<>> /\ response' = NoResponse
       /\ pc \in {"failed", "done"} => pc' = pc]_vars

\* a request with an index in place is answered from both sources: both
\* calls were made, and a ranked list of both came out
C21_Witness ==
    /\ pc = "done"
    /\ available
    /\ arxiv_results # <<>>
    /\ vector_results # <<>>
    /\ Len(sorted_results) = 2

\* -------------------------------------------------------------- claim C22

\* the two records agree on every field of a paper (cached_at, which
\* _update_cache adds after the pipeline, is left out)
SamePaper(a, b) ==
    /\ a.arxiv_id = b.arxiv_id
    /\ a.title = b.title
    /\ a.abstract = b.abstract
    /\ a.published = b.published
    /\ a.categories = b.categories
    /\ a.citation_count = b.citation_count

\* the list the sort is given: the merge of the filtered list and the index's
\* answer when there is an index, else the filtered list
SortInput ==
    IF available THEN _merge_results(filtered_results, vector_results)
    ELSE filtered_results

RECURSIVE SumOver(_, _)
SumOver(counts, S) ==
    IF S = {} THEN 0
    ELSE LET c == CHOOSE x \in S : TRUE
         IN  counts[c] + SumOver(counts, S \ {c})

\* the step completes an update run of task t
CompletesUpdate(t) ==
    /\ writers[t].op = "update"
    /\ writers[t].pc = "await"
    /\ writers'[t].pc = "done"

\* C23: batch update bookkeeping.  In the step that completes an update run,
\* last_updated becomes the time of that step, total_papers becomes the sum
\* of the counts the run fetched over its categories, categories[c] is the
\* count the run fetched for each category c of the run, and the file holds
\* the in-memory cache.  (The run has no way out that raises.)
C23_UpdateBookkeeping ==
    [][\A t \in Tasks :
          CompletesUpdate(t) =>
              LET run == writers'[t]
              IN  /\ _knowledge_cache'.last_updated = now
                  /\ _knowledge_cache'.total_papers =
                         SumOver(run.fetched, DOMAIN run.fetched)
                  /\ \A c \in DOMAIN run.fetched :
                        /\ c \in DOMAIN _knowledge_cache'.categories
                        /\ _knowledge_cache'.categories[c] = run.fetched[c]
                  /\ cache_file' = _knowledge_cache']_vars

\* -------------------------------------------------------------- claim C27

C24_UnavailableSkipped ==
    ~available =>
        /\ pc # "vector"
        /\ vector_results = <<>>
        /\ pc = "done" =>
              /\ merged_results = filtered_results
              /\ sorted_results =
                     (IF req.svc = "search"
                      THEN _sort_results(filtered_results, processed_query)
                      ELSE _sort_papers(filtered_results, processed_query))
              /\ Len(sorted_results) = Len(filtered_results)

\* a request answered without the index, with a paper the merge would have
\* dropped among two ranked ones
C24_Witness ==
    /\ pc = "done"
    /\ ~available
    /\ Len(sorted_results) = 2
    /\ \E i \in 1..2 : sorted_results[i].arxiv_id = ""
    /\ sorted_results # filtered_results

\* -------------------------------------------------------------- claim C25

\* the url _build_citation gives a paper: pdf_url, or the one derived from
\* arxiv_id
UrlOf(item) ==
    IF item.pdf_url # <<>> THEN item.pdf_url
    ELSE IF item.arxiv_id # "" THEN <<"https://arxiv.org/pdf/", item.arxiv_id, ".pdf">>
    ELSE <<>>

\* the indices that are in range, in the order of the citations
CitedIndices == SelectSeq(indices, LAMBDA idx : InRange(idx, Len(contexts)))

\* C25: citation round trip.  For every context paper cited in range, the
\* source ask_question returns for it has the paper's title and the paper's
\* url, whatever the title (a title may hold "](" or begin with "[").
C25_CitationRoundTrip ==
    cite_pc = "done" =>
        /\ Len(sources) = Len(CitedIndices)
        /\ \A k \in 1..Len(sources) :
              /\ sources[k].title = contexts[CitedIndices[k]].title
              /\ sources[k].url = UrlOf(contexts[CitedIndices[k]])

\* -------------------------------------------------------------- claim C26

\* the text with its whitespace trimmed and collapsed, read off character by
\* character: a run of whitespace counts as one space if text came before
\* it and text follows it (pending: whitespace was met after some text)
RECURSIVE Collapsed(_, _, _)
Collapsed(s, begun, pending) ==
    IF s = <<>> THEN <<>>
    ELSE IF Head(s) \in Whitespace THEN Collapsed(Tail(s), begun, begun)
    ELSE (IF pending THEN <<" ">> ELSE <<>>) \o <<Head(s)>>
             \o Collapsed(Tail(s), TRUE, FALSE)

\* C26: query normalisation.  preprocess_query returns the text without
\* leading and trailing whitespace and with every internal run of whitespace
\* made one space; a value that is not a str gives the empty string; and
\* normalising what it returned changes nothing.
C26_Normalisation ==
    /\ pc = "normalised" =>
          processed_query = (IF req.query.type = "str"
                             THEN Collapsed(req.query.text, FALSE, FALSE)
                             ELSE <<>>)
    /\ pc = "normalised again" => processed_query = req.query.text

\* a text with a run of a blank and a tab inside has been normalised
C26_Witness ==
    /\ pc = "normalised"
    /\ req.query = PyValue("str", <<"a", " ", "\t", "b">>)
    /\ processed_query = <<"a", " ", "b">>

\* -------------------------------------------------------------- claim C28

KbRanked ==
    LET filtered == KbApplyFilters(arxiv_results,
                                   IF req.category = "" THEN <<>>
                                   ELSE <<req.category>>,
                                   req.year_from, req.year_to)
        merged == IF available THEN _merge_results(filtered, vector_results)
                  ELSE filtered
    IN  _sort_papers(merged, processed_query)

\* C29: the two duplicated pipelines agree.  For the primary list, the
\* secondary list, the query, the category and the year range of an answered
\* SearchService request, the filter, merge and rank steps of
\* ArxivKnowledgeBase give the ranked list SearchService gave, whatever the
\* records hold (a citation_count included).
C29_PipelinesAgree ==
    pc = "done" /\ req.svc = "search" => sorted_results = KbRanked

\* -------------------------------------------------------------- claim C30

\* C30: configuration validation.  Config.validate returns False whenever
\* the base URL is empty, ARXIV_MAX_RESULTS <= 0, ARXIV_REQUEST_TIMEOUT <= 0
\* or the list of supported categories is empty, and True otherwise.
C30_ConfigValidation ==
    config_pc = "validated" =>
        (valid <=> ~(\/ environ.ARXIV_API_BASE_URL = ""
                     \/ environ.ARXIV_MAX_RESULTS <= 0
                     \/ environ.ARXIV_REQUEST_TIMEOUT <= 0
                     \/ SUPPORTED_CATEGORIES(environ) = <<>>))

====
